---------------------------- MODULE Spec2Model ----------------------------
(***************************************************************************)
(* Model of examples/gmres_demo.py: givens_rotation, gmres and             *)
(* gmres_restart, driven the way example_plot drives them (gmres first,    *)
(* then gmres_restart on the same system) or by a direct call of           *)
(* gmres_restart.                                                          *)
(*                                                                         *)
(* Numbers.  The program computes in floating point.  The model computes   *)
(* the same expressions exactly, in the field Q(sqrt 5): a number is a     *)
(* triple <<p, q, d>> of integers, d > 0, gcd(p, q, d) = 1, standing for   *)
(* (p + q*sqrt(5)) / d.  The inputs are chosen so that every square root   *)
(* the program takes is again in the field; FSqrt has no value elsewhere   *)
(* (TLC stops with an error rather than continue with a rounded root).     *)
(* Exact comparisons of the code (== 0.0, != 0.0, <=) are exact here.      *)
(***************************************************************************)
EXTENDS Integers, Sequences, FiniteSets, TLC

(***************************************************************************)
(* Integer helpers                                                         *)
(***************************************************************************)
IAbs(n) == IF n < 0 THEN -n ELSE n

ISign(n) == IF n < 0 THEN -1 ELSE IF n = 0 THEN 0 ELSE 1

RECURSIVE Gcd(_, _)
Gcd(a, b) == IF b = 0 THEN a ELSE Gcd(b, a % b)

IMin(a, b) == IF a < b THEN a ELSE b

\* floor of the square root of n >= 0, by bisection on lo..hi (lo*lo <= n)
RECURSIVE ISqrtIn(_, _, _)
ISqrtIn(n, lo, hi) ==
    IF lo >= hi THEN lo
    ELSE LET mid == (lo + hi + 1) \div 2
         IN  IF mid * mid <= n THEN ISqrtIn(n, mid, hi) ELSE ISqrtIn(n, lo, mid - 1)

ISqrt(n) == ISqrtIn(n, 0, IMin(n, 46340))

IsSquare(n) == n >= 0 /\ ISqrt(n) * ISqrt(n) = n

(***************************************************************************)
(* Arithmetic of the program's numbers (Python float, numpy float64),      *)
(* computed exactly in Q(sqrt 5).                                          *)
(***************************************************************************)
FNorm(p, q, d) ==
    LET s == IF d < 0 THEN -1 ELSE 1
        k == Gcd(Gcd(IAbs(p), IAbs(q)), IAbs(d))
    IN  <<(s * p) \div k, (s * q) \div k, (s * d) \div k>>

Rat(n, d) == FNorm(n, 0, d)

Num(n) == <<n, 0, 1>>

Zero == Num(0)

One == Num(1)

Sqrt5 == <<0, 1, 1>>

\* over the least common denominator
FAdd(x, y) ==
    LET k == Gcd(x[3], y[3])
        ex == y[3] \div k
        ey == x[3] \div k
    IN  FNorm(x[1] * ex + y[1] * ey, x[2] * ex + y[2] * ey, x[3] * ex)

FNeg(x) == <<-x[1], -x[2], x[3]>>

FSub(x, y) == FAdd(x, FNeg(y))

\* common factors of a numerator and the other denominator cancelled first
FMul(x, y) ==
    LET kx == Gcd(Gcd(IAbs(x[1]), IAbs(x[2])), y[3])
        ky == Gcd(Gcd(IAbs(y[1]), IAbs(y[2])), x[3])
        xp == x[1] \div kx
        xq == x[2] \div kx
        yp == y[1] \div ky
        yq == y[2] \div ky
    IN  FNorm(xp * yp + 5 * xq * yq, xp * yq + xq * yp, (x[3] \div ky) * (y[3] \div kx))

\* 1/y = d * (p - q*sqrt 5) / (p*p - 5*q*q); y # 0 (float division by zero
\* does not occur in the program: every divisor is tested or is >= 1)
FInv(y) ==
    IF y[2] = 0 THEN FNorm(y[3], 0, y[1])
    ELSE FNorm(y[3] * y[1], -(y[3] * y[2]), y[1] * y[1] - 5 * y[2] * y[2])

FDiv(x, y) == FMul(x, FInv(y))

\* sign of p + q*sqrt 5
FSign(x) ==
    LET p == x[1]
        q == x[2]
    IN  IF p >= 0 /\ q >= 0 THEN (IF p = 0 /\ q = 0 THEN 0 ELSE 1)
        ELSE IF p <= 0 /\ q <= 0 THEN -1
        ELSE IF p > 0 THEN ISign(p * p - 5 * q * q)
        ELSE ISign(5 * q * q - p * p)

FIsZero(x) == x[1] = 0 /\ x[2] = 0

FAbs(x) == IF FSign(x) < 0 THEN FNeg(x) ELSE x

FLe(x, y) == FSign(FSub(x, y)) <= 0

FLt(x, y) == FSign(FSub(x, y)) < 0

\* the nonnegative roots of x that lie in the field, for rational x = p/d
\* >= 0 in lowest terms: a/b when p = a*a and d = b*b; a*sqrt(5)/b when
\* p = 5*a*a and d = b*b; a*sqrt(5)/(5*b) when p = a*a and d = 5*b*b
FRoots(x) ==
    LET p == x[1]
        d == x[3]
    IN  IF x[2] # 0 \/ p < 0 THEN {}
        ELSE IF IsSquare(p) /\ IsSquare(d) THEN {FNorm(ISqrt(p), 0, ISqrt(d))}
        ELSE IF p % 5 = 0 /\ IsSquare(p \div 5) /\ IsSquare(d)
             THEN {FNorm(0, ISqrt(p \div 5), ISqrt(d))}
        ELSE IF d % 5 = 0 /\ IsSquare(p) /\ IsSquare(d \div 5)
             THEN {FNorm(0, ISqrt(p), 5 * ISqrt(d \div 5))}
        ELSE {}

\* np.sqrt
FSqrt(x) == CHOOSE r \in FRoots(x) : TRUE

(***************************************************************************)
(* Vectors are functions on 0..n-1 (numpy indexing), matrices functions    *)
(* of two indices.                                                         *)
(***************************************************************************)
Dim(v) == Cardinality(DOMAIN v)

\* f itself, as an array holding its entries (TLC then computes each entry
\* once, as the program does, rather than at every use)
Array(f) == f @@ <<>>

\* e, evaluated after v: TLC evaluates an operator's arguments when they are
\* first used, and a long chain of pending arguments exhausts its stack
After(v, e) == IF v = v THEN e ELSE e

RECURSIVE SumFrom(_, _, _, _)
\* acc + f[i] + ... + f[k]
SumFrom(f, i, k, acc) ==
    IF i > k THEN acc
    ELSE LET a == FAdd(acc, f[i])
         IN  After(a, SumFrom(f, i + 1, k, a))

\* f[0] + ... + f[k]
SumTo(f, k) == SumFrom(f, 0, k, Zero)

\* np.dot of two vectors
Dot(u, v) ==
    LET prod == Array([i \in DOMAIN u |-> FMul(u[i], v[i])])
    IN  After(prod, SumTo(prod, Dim(u) - 1))

RECURSIVE MaxAbsFrom(_, _, _, _)
\* max(acc, |v[i]|, ..., |v[k]|)
MaxAbsFrom(v, i, k, acc) ==
    IF i > k THEN acc
    ELSE LET a == IF FLt(acc, FAbs(v[i])) THEN FAbs(v[i]) ELSE acc
         IN  After(a, MaxAbsFrom(v, i + 1, k, a))

\* np.linalg.norm of a vector, sqrt(v . v), evaluated as c * sqrt(u . u) with
\* c the largest |v[i]| and u = v / c: the same real number, with the
\* integers of the intermediate results small
Norm(v) ==
    LET c == MaxAbsFrom(v, 0, Dim(v) - 1, Zero)
        u == Array([i \in DOMAIN v |-> FDiv(v[i], c)])
        d == Dot(u, u)
        r == FSqrt(d)
    IN  IF FIsZero(c) THEN Zero
        ELSE After(u, After(d, After(r, FMul(c, r))))

VAdd(u, v) == Array([i \in DOMAIN u |-> FAdd(u[i], v[i])])

VSub(u, v) == Array([i \in DOMAIN u |-> FSub(u[i], v[i])])

VScale(c, v) == Array([i \in DOMAIN v |-> FMul(c, v[i])])

VDiv(v, c) == Array([i \in DOMAIN v |-> FDiv(v[i], c)])

\* np.zeros(n)
Zeros(n) == Array([i \in 0 .. n - 1 |-> Zero])

\* Aop.matvec(v) for the dense n x n matrix M
Matvec(M, v) ==
    Array([i \in DOMAIN v |-> SumTo([k \in DOMAIN v |-> FMul(M[i, k], v[k])], Dim(v) - 1)])

\* a vector / matrix of integers written as a sequence (of rows)
IntVec(s) == Array([i \in 0 .. Len(s) - 1 |-> Num(s[i + 1])])

IntMat(rows) ==
    Array([i \in 0 .. Len(rows) - 1, k \in 0 .. Len(rows) - 1 |-> Num(rows[i + 1][k + 1])])

(***************************************************************************)
(* Optional arguments: None is <<>>, a given value v is <<v>>.             *)
(***************************************************************************)
None == <<>>

Some(v) == <<v>>

IsNone(o) == Len(o) = 0

(***************************************************************************)
(* givens_rotation(a, b)                                                   *)
(***************************************************************************)
givens_rotation(a, b) ==
    IF FIsZero(b) THEN <<One, Zero>>
    ELSE IF FLt(FAbs(a), FAbs(b))
         THEN LET tau == FDiv(FNeg(a), b)
                  s == FDiv(One, FSqrt(FAdd(One, FMul(tau, tau))))
                  c == FMul(s, tau)
              IN  After(tau, After(s, <<c, s>>))
         ELSE LET tau == FDiv(FNeg(b), a)
                  c == FDiv(One, FSqrt(FAdd(One, FMul(tau, tau))))
                  s == FMul(c, tau)
              IN  After(tau, After(c, <<c, s>>))

(***************************************************************************)
(* The loops of one Arnoldi step of gmres, as functions of the arrays.     *)
(* V[k] is column k of the code's V (the vector V[:, k]); H[i, k], cs[k],  *)
(* sn[k], g[k] are the code's entries.                                     *)
(***************************************************************************)
RECURSIVE ModifiedGramSchmidt(_, _, _, _, _)
\* for i in range(j + 1), from i on: returns <<H, w>>
ModifiedGramSchmidt(Vm, Hm, w, i, jj) ==
    IF i > jj THEN <<Hm, w>>
    ELSE LET hij == Dot(Vm[i], w)
             H1 == [Hm EXCEPT ![i, jj] = hij]
             w1 == VSub(w, VScale(hij, Vm[i]))
         IN  After(hij, After(H1, After(w1, ModifiedGramSchmidt(Vm, H1, w1, i + 1, jj))))

RECURSIVE ApplyPreviousRotationsWrongColumn(_, _, _, _, _)
\* a faulty variant: the rotated lower entry is stored in H[i + 1, i], not H[i + 1, j]
ApplyPreviousRotationsWrongColumn(Hm, csm, snm, i, jj) ==
    IF i >= jj THEN Hm
    ELSE LET temp == FAdd(FMul(csm[i], Hm[i, jj]), FMul(snm[i], Hm[i + 1, jj]))
             low == FAdd(FMul(FNeg(snm[i]), Hm[i, jj]), FMul(csm[i], Hm[i + 1, jj]))
             H1 == [Hm EXCEPT ![i + 1, i] = low, ![i, jj] = temp]
         IN  After(H1, ApplyPreviousRotationsWrongColumn(H1, csm, snm, i + 1, jj))

RECURSIVE ApplyPreviousRotations(_, _, _, _, _)
\* for i in range(j), from i on: returns H
ApplyPreviousRotations(Hm, csm, snm, i, jj) ==
    IF i >= jj THEN Hm
    ELSE LET temp == FAdd(FMul(csm[i], Hm[i, jj]), FMul(snm[i], Hm[i + 1, jj]))
             low == FAdd(FMul(FNeg(snm[i]), Hm[i, jj]), FMul(csm[i], Hm[i + 1, jj]))
             H1 == [Hm EXCEPT ![i + 1, jj] = low, ![i, jj] = temp]
         IN  After(H1, ApplyPreviousRotations(H1, csm, snm, i + 1, jj))

\* H[j, j] = c * H[j, j] + s * H[j + 1, j]; H[j + 1, j] = 0.0
ApplyRotation(Hm, c, s, jj) ==
    [Hm EXCEPT ![jj, jj] = FAdd(FMul(c, Hm[jj, jj]), FMul(s, Hm[jj + 1, jj])),
               ![jj + 1, jj] = Zero]

\* temp = c * g[j] + s * g[j + 1]; g[j + 1] = -s * g[j] + c * g[j + 1]; g[j] = temp
UpdateRhs(gm, c, s, jj) ==
    [gm EXCEPT ![jj] = FAdd(FMul(c, gm[jj]), FMul(s, gm[jj + 1])),
               ![jj + 1] = FAdd(FMul(FNeg(s), gm[jj]), FMul(c, gm[jj + 1]))]

\* the k x k leading block H[:k, :k] has a zero on its diagonal.  The block
\* is upper triangular (HUpperTriangular below), so this is "singular".
Singular(Hm, k) == \E i \in 0 .. k - 1 : FIsZero(Hm[i, i])

RECURSIVE BackSubstitute(_, _, _, _, _)
\* y[i], y[i-1], ..., y[0] of the upper triangular system H[:k, :k] y = g[:k]
BackSubstitute(Hm, gm, k, i, y) ==
    IF i < 0 THEN y
    ELSE LET rest == SumTo([l \in 0 .. k - 1 |->
                              IF l > i THEN FMul(Hm[i, l], y[l]) ELSE Zero], k - 1)
             yi == FDiv(FSub(gm[i], rest), Hm[i, i])
             y1 == [y EXCEPT ![i] = yi]
         IN  After(rest, After(y1, BackSubstitute(Hm, gm, k, i - 1, y1)))

\* np.linalg.solve(H[:k, :k], g[:k]) of a nonsingular upper triangular block
\* (a singular one raises LinAlgError: see ArnoldiStep)
LinalgSolve(Hm, gm, k) == BackSubstitute(Hm, gm, k, k - 1, Zeros(k))

\* np.linalg.lstsq(H[:k, :k], g[:k], rcond=None)[0]: the solution of the
\* system when the block is nonsingular (for k = 0 the empty vector).  The
\* minimum-norm solution of a singular block is not modelled: no value.
LinalgLstsq(Hm, gm, k) ==
    CHOOSE y \in (IF Singular(Hm, k) THEN {} ELSE {BackSubstitute(Hm, gm, k, k - 1, Zeros(k))}) :
        TRUE

\* a faulty variant, one column short: x + V[:, :k-1].dot(y)
AddCombinationShort(xv, Vm, y, k) ==
    Array([i \in DOMAIN xv |->
             FAdd(xv[i], SumTo([l \in 0 .. k - 2 |-> FMul(Vm[l][i], y[l])], k - 2))])

\* x + V[:, :k].dot(y)
AddCombination(xv, Vm, y, k) ==
    Array([i \in DOMAIN xv |->
             FAdd(xv[i], SumTo([l \in 0 .. k - 1 |-> FMul(Vm[l][i], y[l])], k - 1))])

(***************************************************************************)
(* Bounds of the model and the inputs it runs on.                          *)
(***************************************************************************)
\* largest explicit maxiter passed to gmres by the caller
MaxIter == 3

\* largest inner budget m passed to gmres_restart
MaxM == 2

\* largest maxcycles passed to gmres_restart
MaxCycles == 2

\* the systems (A, b, x0): every square root taken on them is exact
Problems ==
    { \* 5 times a rotation: nonsymmetric, nonsingular, Krylov dimension 2
      [A |-> IntMat(<<<<3, -4>>, <<4, 3>>>>), b |-> IntVec(<<1, 0>>), x0 |-> None],
      [A |-> IntMat(<<<<3, -4>>, <<4, 3>>>>), b |-> IntVec(<<3, 4>>), x0 |-> None],
      [A |-> IntMat(<<<<3, -4>>, <<4, 3>>>>), b |-> IntVec(<<1, 0>>),
       x0 |-> Some(IntVec(<<1, 0>>))],
      \* b - A x0 an eigenvector: breakdown at j = 0
      [A |-> IntMat(<<<<1, 0>>, <<0, 1>>>>), b |-> IntVec(<<3, 4>>), x0 |-> None],
      [A |-> IntMat(<<<<2, 0>>, <<0, 2>>>>), b |-> IntVec(<<3, 4>>),
       x0 |-> Some(IntVec(<<0, 2>>))],
      \* zero initial residual
      [A |-> IntMat(<<<<1, 0>>, <<0, 1>>>>), b |-> IntVec(<<3, 4>>),
       x0 |-> Some(IntVec(<<3, 4>>))],
      [A |-> IntMat(<<<<3, -4>>, <<4, 3>>>>), b |-> IntVec(<<0, 0>>), x0 |-> None],
      \* singular A
      [A |-> IntMat(<<<<0, 0>>, <<0, 0>>>>), b |-> IntVec(<<1, 0>>), x0 |-> None],
      [A |-> IntMat(<<<<0, 1>>, <<0, 0>>>>), b |-> IntVec(<<0, 1>>), x0 |-> None],
      \* permutations: every rotation has a = 0
      [A |-> IntMat(<<<<0, 1>>, <<1, 0>>>>), b |-> IntVec(<<1, 0>>), x0 |-> None],
      [A |-> IntMat(<<<<0, 0, 1>>, <<1, 0, 0>>, <<0, 1, 0>>>>), b |-> IntVec(<<1, 0, 0>>),
       x0 |-> None],
      \* n = 3 with Krylov dimension 2 and 1
      [A |-> IntMat(<<<<3, -4, 0>>, <<4, 3, 0>>, <<0, 0, 5>>>>), b |-> IntVec(<<1, 0, 0>>),
       x0 |-> None],
      [A |-> IntMat(<<<<3, -4, 0>>, <<4, 3, 0>>, <<0, 0, 5>>>>), b |-> IntVec(<<0, 0, 1>>),
       x0 |-> None],
      \* the identity of size 5 with b = ones
      [A |-> IntMat(<<<<1, 0, 0, 0, 0>>, <<0, 1, 0, 0, 0>>, <<0, 0, 1, 0, 0>>,
                      <<0, 0, 0, 1, 0>>, <<0, 0, 0, 0, 1>>>>),
       b |-> IntVec(<<1, 1, 1, 1, 1>>), x0 |-> None] }

\* the tolerances
Tols == {Zero, One, Num(10)}

\* maxiter of the direct gmres call: None (the default, n) or 0..MaxIter
MaxiterArgs == {None} \cup {Some(k) : k \in 0 .. MaxIter}

VARIABLES
    input,      \* A, b, x0, tol, maxiter, m, maxcycles: the caller's arguments
    pc,         \* where control is
    caller,     \* who called gmres: "example" (example_plot) or "restart"
    arg,        \* x0 and maxiter of the current gmres call
    x,          \* gmres: x
    maxiter,    \* gmres: maxiter after defaulting
    V,          \* gmres: V, by columns
    H,          \* gmres: H
    cs,         \* gmres: cs
    sn,         \* gmres: sn
    g,          \* gmres: g
    resvec,     \* gmres: resvec
    rot_in,     \* gmres: H[j, j], H[j + 1, j] as passed to givens_rotation (line 127)
    j,          \* gmres: j, the next step of the for loop
    nmatvec,    \* number of Aop.matvec calls of the current gmres call
    ret,        \* the value gmres returned: <<x, resvec>>
    xr,         \* gmres_restart: x
    residuals,  \* gmres_restart: residuals
    cycle,      \* gmres_restart: cycle
    calls,      \* the gmres calls gmres_restart has made: their (x0, maxiter)
    x_gmres,    \* example_plot: x_gmres (None until assigned)
    res_gmres,  \* example_plot: res_gmres
    x_rgmres,   \* example_plot: x_rgmres (None until assigned)
    res_rgmres  \* example_plot: res_rgmres

frame == <<x, maxiter, V, H, cs, sn, g, resvec, rot_in, j, nmatvec>>

rframe == <<xr, residuals, cycle, calls>>

results == <<x_gmres, res_gmres, x_rgmres, res_rgmres>>

vars == <<input, pc, caller, arg, frame, ret, rframe, results>>

n == Dim(input.b)

Init ==
    /\ \E p \in Problems, tl \in Tols, mi \in MaxiterArgs, mm \in 0 .. MaxM,
          mc \in 0 .. MaxCycles, entry \in {"example", "restart"} :
          /\ entry = "restart" => mi = None
          /\ input = [A |-> p.A, b |-> p.b, x0 |-> p.x0, tol |-> tl, maxiter |-> mi,
                      m |-> mm, maxcycles |-> mc]
          /\ pc = IF entry = "example" THEN "gmres" ELSE "restart"
          /\ caller = entry
    /\ arg = [x0 |-> input.x0, maxiter |-> input.maxiter]
    /\ x = <<>> /\ maxiter = 0 /\ V = <<>> /\ H = <<>> /\ cs = <<>> /\ sn = <<>>
    /\ g = <<>> /\ resvec = <<>> /\ rot_in = <<>> /\ j = 0 /\ nmatvec = 0
    /\ ret = <<>>
    /\ xr = <<>> /\ residuals = <<>> /\ cycle = 0 /\ calls = <<>>
    /\ x_gmres = None /\ res_gmres = <<>> /\ x_rgmres = None /\ res_rgmres = <<>>

(***************************************************************************)
(* gmres, lines 74-105: the prologue up to the loop.  A value computed by  *)
(* a statement is bound by \E v \in {e}: the statements are evaluated in    *)
(* program order, each once.                                               *)
(***************************************************************************)
\* a faulty variant: return np.zeros(n), [0.0]
ZeroResidualReturnFresh(xv) == <<Zeros(Dim(xv)), <<Zero>>>>

\* line 89: return x, [0.0]
ZeroResidualReturn(xv) == <<xv, <<Zero>>>>

GmresEnter ==
    /\ pc = "gmres"
    /\ \E x_ \in {IF IsNone(arg.x0) THEN Zeros(n) ELSE arg.x0[1]},
          mi \in {IF IsNone(arg.maxiter) THEN n ELSE arg.maxiter[1]} :
       \E Ax \in {Matvec(input.A, x_)} :
       \E r0 \in {VSub(input.b, Ax)} :
       \E beta \in {Norm(r0)} :
          /\ x' = x_
          /\ maxiter' = mi
          /\ nmatvec' = 1
          /\ IF FIsZero(beta)
             THEN /\ ret' = ZeroResidualReturn(x_)
                  /\ pc' = "ret"
                  /\ UNCHANGED <<V, H, cs, sn, g, resvec, rot_in, j>>
             ELSE /\ V' = Array([k \in 0 .. mi |-> IF k = 0 THEN VDiv(r0, beta) ELSE Zeros(n)])
                  /\ H' = Array([i \in 0 .. mi, k \in 0 .. mi - 1 |-> Zero])
                  /\ cs' = Array([k \in 0 .. mi - 1 |-> Zero])
                  /\ sn' = Array([k \in 0 .. mi - 1 |-> Zero])
                  /\ g' = Array([k \in 0 .. mi |-> IF k = 0 THEN beta ELSE Zero])
                  /\ resvec' = <<beta>>
                  /\ rot_in' = <<>>
                  /\ j' = 0
                  /\ pc' = "loop"
                  /\ UNCHANGED ret
    /\ UNCHANGED <<input, caller, arg, rframe, results>>

(***************************************************************************)
(* gmres, lines 107-148: one pass of the for loop                          *)
(***************************************************************************)
\* a faulty variant, the comparison turned round: res_norm >= tol
ConvergedFlipped(res_norm, tol) == FLe(tol, res_norm)

\* line 144: res_norm <= tol
Converged(res_norm, tol) == FLe(res_norm, tol)

ArnoldiStep ==
    /\ pc = "loop"
    /\ j < maxiter
    /\ \E w0 \in {Matvec(input.A, V[j])} :
       \E mgs \in {ModifiedGramSchmidt(V, H, w0, 0, j)} :
       \E hn \in {Norm(mgs[2])} :
       \E H1 \in {[mgs[1] EXCEPT ![j + 1, j] = hn]},
          V1 \in {IF ~FIsZero(hn) THEN [V EXCEPT ![j + 1] = VDiv(mgs[2], hn)] ELSE V} :
       \E H2 \in {ApplyPreviousRotations(H1, cs, sn, 0, j)} :
       \E rot \in {givens_rotation(H2[j, j], H2[j + 1, j])} :
       \E H3 \in {ApplyRotation(H2, rot[1], rot[2], j)},
          g1 \in {UpdateRhs(g, rot[1], rot[2], j)} :
       \E res_norm \in {FAbs(g1[j + 1])} :
          /\ V' = V1
          /\ H' = H3
          /\ cs' = [cs EXCEPT ![j] = rot[1]]
          /\ sn' = [sn EXCEPT ![j] = rot[2]]
          /\ g' = g1
          /\ resvec' = Append(resvec, res_norm)
          /\ rot_in' = <<H2[j, j], H2[j + 1, j]>>
          /\ nmatvec' = nmatvec + 1
          /\ IF Converged(res_norm, input.tol)
             THEN IF Singular(H3, j + 1)
                  THEN \* np.linalg.solve raises LinAlgError("Singular matrix")
                       /\ pc' = "error"
                       /\ UNCHANGED <<x, j, ret>>
                  ELSE \E y \in {LinalgSolve(H3, g1, j + 1)} :
                       \E x1 \in {AddCombination(x, V1, y, j + 1)} :
                          /\ x' = x1
                          /\ ret' = <<x1, Append(resvec, res_norm)>>
                          /\ pc' = "ret"
                          /\ UNCHANGED j
             ELSE /\ j' = j + 1
                  /\ UNCHANGED <<x, ret, pc>>
    /\ UNCHANGED <<input, caller, arg, maxiter, rframe, results>>

(***************************************************************************)
(* gmres, lines 150-153: the loop is exhausted                             *)
(***************************************************************************)
GmresFinish ==
    /\ pc = "loop"
    /\ j >= maxiter
    /\ \E y \in {LinalgLstsq(H, g, maxiter)} :
       \E x1 \in {AddCombination(x, V, y, maxiter)} :
          /\ x' = x1
          /\ ret' = <<x1, resvec>>
    /\ pc' = "ret"
    /\ UNCHANGED <<input, caller, arg, maxiter, V, H, cs, sn, g, resvec, rot_in, j, nmatvec,
                   rframe, results>>

(***************************************************************************)
(* example_plot, lines 219-223: x_gmres, res_gmres = gmres(...), then the  *)
(* call of gmres_restart                                                   *)
(***************************************************************************)
ExampleAfterGmres ==
    /\ pc = "ret"
    /\ caller = "example"
    /\ x_gmres' = Some(ret[1])
    /\ res_gmres' = ret[2]
    /\ pc' = "restart"
    /\ UNCHANGED <<input, caller, arg, frame, ret, rframe, x_rgmres, res_rgmres>>

(***************************************************************************)
(* gmres_restart, lines 171-176                                            *)
(***************************************************************************)
RestartEnter ==
    /\ pc = "restart"
    /\ xr' = IF IsNone(input.x0) THEN Zeros(n) ELSE input.x0[1]
    /\ residuals' = <<>>
    /\ cycle' = 0
    /\ pc' = "cycle"
    /\ UNCHANGED <<input, caller, arg, frame, ret, calls, results>>

(***************************************************************************)
(* gmres_restart, lines 177-178: the loop head and the call of gmres       *)
(***************************************************************************)
\* a faulty variant, the guess not passed on: gmres(A, b, tol=tol, maxiter=m)
InnerCallArgsNoGuess(xv, mm) == [x0 |-> None, maxiter |-> Some(mm)]

\* the arguments of the inner call: gmres(A, b, x0=x, tol=tol, maxiter=m)
InnerCallArgs(xv, mm) == [x0 |-> Some(xv), maxiter |-> Some(mm)]

RestartCall ==
    /\ pc = "cycle"
    /\ cycle < input.maxcycles
    /\ arg' = InnerCallArgs(xr, input.m)
    /\ calls' = Append(calls, InnerCallArgs(xr, input.m))
    /\ caller' = "restart"
    /\ pc' = "gmres"
    /\ UNCHANGED <<input, frame, ret, xr, residuals, cycle, results>>

(***************************************************************************)
(* gmres_restart, lines 178-187: the inner call has returned               *)
(***************************************************************************)
\* rvec with its first entry dropped: rvec[1:]
Rest(rvec) == SubSeq(rvec, 2, Len(rvec))

\* residuals.extend(rvec) in cycle 0, residuals.extend(rvec[1:]) after it
Extend(res, rvec, cyc) == IF cyc = 0 THEN res \o rvec ELSE res \o Rest(rvec)

RestartCycleEnd ==
    /\ pc = "ret"
    /\ caller = "restart"
    /\ LET res1 == Extend(residuals, ret[2], cycle)
       IN  /\ xr' = ret[1]
           /\ residuals' = res1
           /\ IF FLe(res1[Len(res1)], input.tol)
              THEN /\ pc' = "break"
                   /\ UNCHANGED cycle
              ELSE /\ pc' = "cycle"
                   /\ cycle' = cycle + 1
    /\ UNCHANGED <<input, caller, arg, frame, ret, calls, results>>

(***************************************************************************)
(* gmres_restart, line 189, and the assignment of example_plot, line 223   *)
(***************************************************************************)
RestartReturn ==
    /\ \/ pc = "break"
       \/ pc = "cycle" /\ cycle >= input.maxcycles
    /\ x_rgmres' = Some(xr)
    /\ res_rgmres' = residuals
    /\ pc' = "done"
    /\ UNCHANGED <<input, caller, arg, frame, ret, rframe, x_gmres, res_gmres>>

Next ==
    \/ GmresEnter
    \/ ArnoldiStep
    \/ GmresFinish
    \/ ExampleAfterGmres
    \/ RestartEnter
    \/ RestartCall
    \/ RestartCycleEnd
    \/ RestartReturn

\* control has reached neither the end of example_plot nor an exception
Running == pc \notin {"done", "error"}

\* control moves on, or gmres applies the operator once more.  Every step of
\* Next is such a step, and Next has a step exactly when Running.
Advance ==
    /\ Running
    /\ pc' \in {"gmres", "loop", "ret", "restart", "cycle", "break", "done", "error"}
    /\ nmatvec' \in {1, nmatvec, nmatvec + 1}

\* the program is sequential: as long as it is running it executes its next
\* statement.  This is weak fairness of Next, with the enabling condition
\* read off pc.
FairSpec == Init /\ [][Next]_vars /\ WF_<<pc, nmatvec>>(Advance)

Spec == Init /\ [][Next]_vars


(***************************************************************************)
(* Observations of a gmres call                                            *)
(***************************************************************************)
\* the Arnoldi steps the current call has executed: one matvec each after line 85
StepsDone == nmatvec - 1

\* control is inside the current gmres call or at its exit
InCall == pc \in {"loop", "ret", "error"}

\* the x the current call started from (lines 75-78)
StartX == IF IsNone(arg.x0) THEN Zeros(n) ELSE arg.x0[1]

\* b - A v, recomputed from the problem
Residual(v) ==
    LET Av == Matvec(input.A, v)
    IN  After(Av, VSub(input.b, Av))

\* the step k of the current call broke down: H[k+1, k] was 0 after the
\* orthogonalisation, so that V[:, k+1] was never assigned (lines 116-118)
BreakdownAt(k) == k < StepsDone /\ \A i \in DOMAIN V[k + 1] : FIsZero(V[k + 1][i])

(***************************************************************************)
(* C1                                                                      *)
(***************************************************************************)
\* C1: for the (a, b) of every givens_rotation call gmres makes, the returned
\* (c, s) zeroes the second component of [[c, s], [-s, c]] (a, b), that is
\* -s*a + c*b = 0, the form in which gmres applies the rotation.
GivensZeroesSecond ==
    (InCall /\ StepsDone >= 1) =>
        LET c == cs[StepsDone - 1]
            s == sn[StepsDone - 1]
        IN  FIsZero(FAdd(FMul(FNeg(s), rot_in[1]), FMul(c, rot_in[2])))

(***************************************************************************)
(* C2                                                                      *)
(***************************************************************************)
\* C2: for every (x, history) gmres returns, the recomputed ||b - A x|| equals the
\* last history entry.  Both are nonnegative, so they are compared by their squares.
ReturnedResidualIsLast ==
    pc = "ret" =>
        LET r == Residual(ret[1])
            last == ret[2][Len(ret[2])]
        IN  After(r, Dot(r, r) = FMul(last, last))

(***************************************************************************)
(* C3                                                                      *)
(***************************************************************************)
\* C3: when a step k with k + 1 < n breaks down, gmres raises no error and
\* returns the exact solution, A x = b.
BreakdownGivesExactSolution ==
    (InCall /\ \E k \in 0 .. n - 2 : BreakdownAt(k)) =>
        /\ pc # "error"
        /\ pc = "ret" => \A i \in DOMAIN input.b : FIsZero(Residual(ret[1])[i])


(***************************************************************************)
(* C7                                                                      *)
(***************************************************************************)
\* the 5 x 5 identity with b = ones, started from x0 = 0
IdentityOnes ==
    /\ n = 5
    /\ \A i, k \in 0 .. 4 : input.A[i, k] = IF i = k THEN One ELSE Zero
    /\ \A i \in 0 .. 4 : input.b[i] = One
    /\ \A i \in 0 .. 4 : StartX[i] = Zero

\* C7: on the 5 x 5 identity with b = ones and x0 = 0 gmres performs exactly one
\* Arnoldi step, which yields H[0,0] = 1 and H[1,0] = 0, and returns the history
\* [sqrt 5, 0] and x = ones.
IdentityOneStep ==
    (IdentityOnes /\ InCall /\ maxiter >= 1) =>
        /\ pc # "error"
        /\ pc = "loop" => StepsDone = 0
        /\ pc = "ret" =>
              /\ StepsDone = 1
              /\ rot_in = <<One, Zero>>
              /\ H[0, 0] = One /\ H[1, 0] = Zero
              /\ ret[2] = <<Sqrt5, Zero>>
              /\ \A i \in 0 .. 4 : ret[1][i] = One

\* gmres has returned from its one step on the identity
IdentityReturned == IdentityOnes /\ pc = "ret" /\ maxiter >= 1 /\ StepsDone = 1

(***************************************************************************)
(* C8                                                                      *)
(***************************************************************************)
\* b - A x0 = 0 for the x0 of the current call
ZeroInitialResidual == \A i \in DOMAIN input.b : FIsZero(Residual(StartX)[i])

\* C8: when the initial residual is zero, gmres returns x0 unchanged with the
\* history [0], having applied the operator exactly once and run no Arnoldi step.
ZeroResidualReturnsAtOnce ==
    (InCall /\ ZeroInitialResidual) =>
        /\ pc = "ret"
        /\ ret = <<StartX, <<Zero>>>>
        /\ nmatvec = 1

\* gmres has returned from a nonzero x0 with zero residual
ZeroResidualReturned ==
    /\ pc = "ret"
    /\ ZeroInitialResidual
    /\ \E i \in DOMAIN StartX : ~FIsZero(StartX[i])

(***************************************************************************)
(* C10                                                                     *)
(***************************************************************************)
\* maxiter of the current call after defaulting (lines 79-80)
EffMaxiter == IF IsNone(arg.maxiter) THEN n ELSE arg.maxiter[1]

\* C10: a call with nonzero initial residual that ran k steps returns a history
\* of 1 + k entries, k <= maxiter; the entries 1 .. k-1 are > tol; the last is
\* <= tol or k = maxiter; a step runs whenever maxiter >= 1, whatever entry 0 is.
HistoryShape ==
    (pc = "ret" /\ ~ZeroInitialResidual) =>
        LET hist == ret[2]
            k == StepsDone
        IN  /\ Len(hist) = 1 + k
            /\ k <= EffMaxiter
            /\ \A i \in 1 .. k - 1 : FLt(input.tol, hist[i + 1])
            /\ FLe(hist[Len(hist)], input.tol) \/ k = EffMaxiter
            /\ EffMaxiter >= 1 => k >= 1

\* a call whose entry 0 was already <= tol has run one step and stopped early
StepDespiteSmallStart ==
    /\ pc = "ret"
    /\ ~ZeroInitialResidual
    /\ FLe(ret[2][1], input.tol)
    /\ StepsDone = 1
    /\ EffMaxiter > 1


(***************************************************************************)
(* C9                                                                      *)
(***************************************************************************)
\* the step from the current state to the next is an Arnoldi step of gmres
IsArnoldiStep == pc = "loop" /\ nmatvec' = nmatvec + 1

\* below its diagonal H is zero in every column (the columns of the steps
\* done have been rotated, the others are as allocated)
HUpperTriangular ==
    pc = "loop" => \A i \in 0 .. maxiter, k \in 0 .. maxiter - 1 : i > k => H[i, k] = Zero

\* C9: step j writes only column j of H, column j+1 of V, cs[j], sn[j], g[j] and
\* g[j+1], and leaves H[k+1, k] = 0 for every k <= j; the exit on loop
\* exhaustion writes none of them.
StepFrame ==
    [][ /\ IsArnoldiStep =>
            /\ \A i \in 0 .. maxiter, k \in 0 .. maxiter - 1 : k # j => H'[i, k] = H[i, k]
            /\ \A k \in 0 .. maxiter : k # j + 1 => V'[k] = V[k]
            /\ \A k \in 0 .. maxiter - 1 : k # j => cs'[k] = cs[k] /\ sn'[k] = sn[k]
            /\ \A k \in 0 .. maxiter : k \notin {j, j + 1} => g'[k] = g[k]
            /\ \A i \in 0 .. maxiter, k \in 0 .. j : i > k => H'[i, k] = Zero
        /\ (pc = "loop" /\ pc' = "ret" /\ nmatvec' = nmatvec) =>
            UNCHANGED <<V, H, cs, sn, g>>
      ]_vars

\* two steps have run in the current call, the first with a proper rotation
SecondStepDone == InCall /\ StepsDone >= 2 /\ ~FIsZero(sn[0])

(***************************************************************************)
(* C4                                                                      *)
(***************************************************************************)
\* example_plot has run gmres with maxiter = n (given, or by default) and then
\* gmres_restart with m = n and maxcycles = 1
OneFullCycle ==
    /\ pc = "done"
    /\ ~IsNone(x_gmres)
    /\ input.m = n
    /\ input.maxcycles = 1
    /\ IsNone(input.maxiter) \/ input.maxiter = Some(n)

\* C4: gmres_restart(A, b, m=n, maxcycles=1) makes exactly one inner call and
\* returns the x and the history of gmres(A, b, maxiter=n) on the same A, b, x0, tol.
RestartOnceIsGmres ==
    OneFullCycle =>
        /\ Len(calls) = 1
        /\ x_rgmres = x_gmres
        /\ res_rgmres = res_gmres

\* both have returned, after two steps
OneFullCycleTwoSteps == OneFullCycle /\ Len(res_gmres) = 3

(***************************************************************************)
(* C5                                                                      *)
(***************************************************************************)
\* C5: at the end of every cycle after cycle 0 the first entry of the inner
\* history equals the last entry of the running history, and every cycle adds
\* one entry per inner step (cycle 0 one more, for the initial residual).
RestartHistoryContinuous ==
    [][ (pc = "ret" /\ caller = "restart" /\ pc' \in {"cycle", "break"}) =>
            /\ cycle >= 1 => ret[2][1] = residuals[Len(residuals)]
            /\ Len(residuals') = (IF cycle = 0 THEN 1 ELSE Len(residuals)) + StepsDone
      ]_vars

(***************************************************************************)
(* C6                                                                      *)
(***************************************************************************)
\* what gmres_restart does between its calls: at most maxcycles inner calls, each
\* from the x the previous one returned (the first from x0) with maxiter = m, none
\* after a cycle that ended with the last entry <= tol, and a return when the
\* cycles are used up
RestartControl ==
    /\ [](Len(calls) <= input.maxcycles)
    /\ [][ (pc = "cycle" /\ pc' = "gmres") =>
              /\ arg'.maxiter = Some(input.m)
              /\ arg'.x0 = Some(IF cycle = 0
                                THEN (IF IsNone(input.x0) THEN Zeros(n) ELSE input.x0[1])
                                ELSE ret[1])
              /\ calls' = Append(calls, arg')
              /\ residuals = <<>> \/ FLt(input.tol, residuals[Len(residuals)])
         ]_vars
    /\ [][pc' = "error" => IsArnoldiStep]_vars
    /\ [](pc = "done" => x_rgmres = Some(xr) /\ res_rgmres = residuals)
    /\ <>(pc \in {"done", "error"})

\* C6: gmres_restart always terminates and returns (x, history), never raising,
\* with the inner calls as in RestartControl.
RestartAlwaysReturns ==
    /\ RestartControl
    /\ [](pc # "error")
    /\ <>(pc = "done")

=============================================================================
